---- MODULE Spec2Model ----
(***************************************************************************)
(* State-machine model of the SMS notification page                         *)
(* (src/src/app/page.tsx): the beneficiary list held in React state, the    *)
(* spreadsheet import, manual entry, removal, clearing, message templating  *)
(* and the simulated batch send.                                            *)
(*                                                                          *)
(* JavaScript strings are modelled as sequences of one-character strings,   *)
(* so that concatenation, toLowerCase and substring search are computed     *)
(* rather than assumed.  A JavaScript value is a record [type, val].        *)
(***************************************************************************)
EXTENDS Integers, Sequences, FiniteSets

VARIABLES
  beneficiaries,     \* useState<Beneficiary[]>([])               (line 17)
  notificationDate,  \* useState<string>(today)                   (line 18)
  isSending,         \* useState(false)                           (line 19)
  successMessage,    \* useState<string | null>(null)             (line 20)
  pendingReads,      \* FileReaders started and not yet loaded    (line 51)
  timers,            \* suspended sendNotifications calls, each with the
                     \* beneficiaries/notificationDate of its closure (line 81)
  alertShown,        \* text passed to alert() by the latest step (lines 48, 91)
  consoleOut         \* lines passed to console.log by the latest step (line 85)

vars ==
  <<beneficiaries, notificationDate, isSending, successMessage,
    pendingReads, timers, alertShown, consoleOut>>

(***************************************************************************)
(* Bounds of the exploration.                                               *)
(***************************************************************************)
MaxLen == 3
MaxRows == 2
MaxPendingReads == 1

(***************************************************************************)
(* JavaScript values.                                                       *)
(***************************************************************************)
Str(s) == [type |-> "string", val |-> s]
Num(digits) == [type |-> "number", val |-> digits]
Undefined == [type |-> "undefined", val |-> <<>>]
Null == [type |-> "null", val |-> <<>>]

\* Truthiness as used by the || operator.
Truthy(v) ==
  CASE v.type = "string" -> v.val # <<>>
    [] v.type = "number" -> v.val # <<"0">>
    [] OTHER -> FALSE

\* a || b
Or(a, b) == IF Truthy(a) THEN a ELSE b

\* row[key]: a missing property reads as undefined.
Get(row, key) == IF key \in DOMAIN row THEN row[key] ELSE Undefined

UpperCaseLetters ==
  <<"A", "B", "C", "D", "E", "F", "G", "H", "I", "J", "K", "L", "M", "N", "O", "P", "Q", "R", "S", "T", "U", "V", "W", "X", "Y", "Z">>

LowerCaseLetters ==
  <<"a", "b", "c", "d", "e", "f", "g", "h", "i", "j", "k", "l", "m", "n", "o", "p", "q", "r", "s", "t", "u", "v", "w", "x", "y", "z">>

DecimalDigits ==
  <<"0", "1", "2", "3", "4", "5", "6", "7", "8", "9">>

LitUndefined ==
  <<"u", "n", "d", "e", "f", "i", "n", "e", "d">>

\* The lower-case form of each upper-case Latin letter.
LowerOf ==
  [c \in {UpperCaseLetters[i] : i \in 1..Len(UpperCaseLetters)} |->
     LowerCaseLetters[CHOOSE i \in 1..Len(UpperCaseLetters) : UpperCaseLetters[i] = c]]

\* String.prototype.toLowerCase on one character (Latin letters A-Z).
LowerChar(c) == IF c \in DOMAIN LowerOf THEN LowerOf[c] ELSE c

\* String.prototype.toLowerCase on a sequence of characters.
toLowerCase(s) == [i \in 1..Len(s) |-> LowerChar(s[i])]

\* Decimal rendering of a non-negative integer inside a template literal.
RECURSIVE NumberToString(_)
NumberToString(n) ==
  IF n < 10 THEN <<DecimalDigits[n + 1]>>
  ELSE NumberToString(n \div 10) \o <<DecimalDigits[(n % 10) + 1]>>

\* ${value} inside a template literal.
ToString(v) ==
  CASE v.type = "string" -> v.val
    [] v.type = "number" -> v.val
    [] v.type = "null" -> <<"n", "u", "l", "l">>
    [] OTHER -> LitUndefined

(***************************************************************************)
(* String literals of the source.                                           *)
(***************************************************************************)
LitCash ==
  <<"c", "a", "s", "h">>

LitVirement ==
  <<"v", "i", "r", "e", "m", "e", "n", "t">>

LitBonjour ==
  <<"B", "o", "n", "j", "o", "u", "r", " ">>

LitVotreBon ==
  <<"\n", "V", "o", "t", "r", "e", " ", "b", "o", "n", " ", "d", "e", " ", "c", "o", "m", "m", "a", "n", "d", "e", " ">>

LitSeraPaye ==
  <<" ", "s", "e", "r", "a", " ", "p", "a", "y", "é", " ", "l", "e", " ">>

LitDot ==
  <<".">>

LitTresorerie ==
  <<"\n", "V", "o", "u", "s", " ", "p", "o", "u", "v", "e", "z", " ", "p", "a", "s", "s", "e", "r", " ", "à", " ", "l", "a", " ", "t", "r", "é", "s", "o", "r", "e", "r", "i", "e", ".">>

LitVirementEffectue ==
  <<"\n", "L", "e", " ", "v", "i", "r", "e", "m", "e", "n", "t", " ", "a", " ", "é", "t", "é", " ", "e", "f", "f", "e", "c", "t", "u", "é", " ", "s", "u", "r", " ", "v", "o", "t", "r", "e", " ", "c", "o", "m", "p", "t", "e", ".">>

LitSendingSmsTo ==
  <<"S", "e", "n", "d", "i", "n", "g", " ", "S", "M", "S", " ", "t", "o", " ">>

LitColon ==
  <<":", " ">>

LitImported ==
  <<" ", "b", "é", "n", "é", "f", "i", "c", "i", "a", "i", "r", "e", "s", " ", "a", "j", "o", "u", "t", "é", "s", " ", "d", "e", "p", "u", "i", "s", " ", "l", "e", " ", "f", "i", "c", "h", "i", "e", "r">>

LitAdded ==
  <<"B", "é", "n", "é", "f", "i", "c", "i", "a", "i", "r", "e", " ", "a", "j", "o", "u", "t", "é", " ", "a", "v", "e", "c", " ", "s", "u", "c", "c", "è", "s">>

LitRemoved ==
  <<"B", "é", "n", "é", "f", "i", "c", "i", "a", "i", "r", "e", " ", "s", "u", "p", "p", "r", "i", "m", "é">>

\* The check-mark character U+2705 followed by a space; the character is
\* written by its code point.
LitSentPrefix ==
  <<"U+2705", " ">>

LitSentSuffix ==
  <<" ", "n", "o", "t", "i", "f", "i", "c", "a", "t", "i", "o", "n", "s", " ", "e", "n", "v", "o", "y", "é", "e", "s", " ", "a", "v", "e", "c", " ", "s", "u", "c", "c", "è", "s">>

LitImportError ==
  <<"E", "r", "r", "e", "u", "r", " ", "l", "o", "r", "s", " ", "d", "e", " ", "l", "a", " ", "l", "e", "c", "t", "u", "r", "e", " ", "d", "u", " ", "f", "i", "c", "h", "i", "e", "r", ".", " ", "V", "é", "r", "i", "f", "i", "e", "z", " ", "l", "e", " ", "f", "o", "r", "m", "a", "t", ".">>

LitSendError ==
  <<"E", "r", "r", "e", "u", "r", " ", "l", "o", "r", "s", " ", "d", "e", " ", "l", "'", "e", "n", "v", "o", "i", " ", "d", "e", "s", " ", "n", "o", "t", "i", "f", "i", "c", "a", "t", "i", "o", "n", "s">>

(***************************************************************************)
(* Inputs: the cell texts, spreadsheet rows, parse outcomes, form contents  *)
(* and dates the environment may supply.                                    *)
(***************************************************************************)
TxtAli ==
  <<"A", "l", "i">>

TxtPhone1 ==
  <<"0", "6", "0", "0">>

TxtRef1 ==
  <<"B", "1">>

TxtRef2 ==
  <<"B", "2">>

TxtAccount ==
  <<"F", "R", "7", "6">>

TxtVirement ==
  <<"V", "i", "r", "e", "m", "e", "n", "T">>

TxtVirements ==
  <<"v", "i", "r", "e", "m", "e", "n", "t", "s">>

TxtDate1 ==
  <<"2", "0", "2", "4", "-", "0", "1", "-", "0", "1">>

\* A name that happens to read like the closing line of a transfer message.
TxtPhraseName ==
  <<"L", "e", " ", "v", "i", "r", "e", "m", "e", "n", "t", " ", "a", " ", "é", "t", "é", " ", "e", "f", "f", "e", "c", "t", "u", "é", " ", "s", "u", "r", " ", "v", "o", "t", "r", "e", " ", "c", "o", "m", "p", "t", "e", ".">>

\* Rows as XLSX.utils.sheet_to_json returns them: column header -> cell.
\* A transfer beneficiary: the name under its second alias behind an empty
\* first one, the reference under its second alias, the account under its
\* second alias, an empty "Méthode" cell and a capitalised "Mode" cell.
RowAli ==
  [k \in {"Nom", "Bénéficiaire", "Téléphone", "Bulletin", "Méthode", "Mode", "IBAN"} |->
     CASE k = "Nom" -> Str(<<>>)
       [] k = "Bénéficiaire" -> Str(TxtAli)
       [] k = "Téléphone" -> Str(TxtPhone1)
       [] k = "Bulletin" -> Str(TxtRef1)
       [] k = "Méthode" -> Str(<<>>)
       [] k = "Mode" -> Str(TxtVirement)
       [] OTHER -> Str(TxtAccount)]

\* A row with no phone, no reference and no account column, a payment mode
\* that is not "virement", and a name that reads like an instruction.
RowPhrase ==
  [k \in {"Name", "Méthode", "Autre"} |->
     CASE k = "Name" -> Str(TxtPhraseName)
       [] k = "Méthode" -> Str(TxtVirements)
       [] OTHER -> Str(TxtRef2)]

\* A row whose "Mode" cell is numeric (sheet_to_json yields a number).
RowNumericMode ==
  [k \in {"Name", "Mode"} |-> IF k = "Name" THEN Str(TxtAli) ELSE Num(<<"1">>)]

ImportRows == {RowAli, RowPhrase, RowNumericMode}

RECURSIVE SeqsUpTo(_, _)
SeqsUpTo(S, n) ==
  IF n = 0 THEN {<<>>}
  ELSE LET shorter == SeqsUpTo(S, n - 1)
       IN shorter \cup {Append(s, x) : s \in shorter, x \in S}

\* The row sequences sheet_to_json may return.  The mapping stops at the
\* first row that throws, so a throwing row is only ever placed last.
RowSequences ==
  {rows \in SeqsUpTo(ImportRows, MaxRows) :
     \A i \in 1..(Len(rows) - 1) : rows[i] # RowNumericMode}

\* What XLSX.read / sheet_to_json may do with the selected file: throw, or
\* return the rows of the first sheet.
ParseOutcomes ==
  {[ok |-> FALSE, jsonData |-> <<>>]}
    \cup {[ok |-> TRUE, jsonData |-> rows] : rows \in RowSequences}

\* Contents of the manual entry form at submit time: the three text inputs
\* and the component's paymentMethod / accountNumber state.
FormInputs ==
  { [name |-> TxtAli, phone |-> TxtPhone1, reference |-> TxtRef1,
     paymentMethod |-> "transfer", accountNumber |-> TxtAccount],
    [name |-> TxtAli, phone |-> TxtPhone1, reference |-> TxtRef1,
     paymentMethod |-> "transfer", accountNumber |-> <<>>],
    [name |-> <<>>, phone |-> TxtPhone1, reference |-> TxtRef1,
     paymentMethod |-> "cash", accountNumber |-> <<>>],
    [name |-> TxtPhraseName, phone |-> <<>>, reference |-> TxtRef1,
     paymentMethod |-> "cash", accountNumber |-> TxtAccount],
    [name |-> TxtAli, phone |-> TxtPhone1, reference |-> <<>>,
     paymentMethod |-> "transfer", accountNumber |-> TxtAccount] }

\* Values the date input can take: a calendar date, or empty when cleared.
DateInputs == {TxtDate1, <<>>}

(***************************************************************************)
(* Pure functions of the page.                                              *)
(***************************************************************************)

\* beneficiaries.length === 0                       (lines 74, 189, 273, 283)
IsEmpty_Never(list) == FALSE

IsEmpty(list) == Len(list) = 0

\* The value whose toLowerCase() is taken at line 41.
ModeValue(row) == Or(Or(Get(row, "Méthode"), Get(row, "Mode")), Str(LitCash))

\* Calling .toLowerCase() on a value that is not a string throws a TypeError.
RowThrows(row) == ModeValue(row).type # "string"

\* The object literal built for one row (lines 37-43).
MapRow_CaseSensitive(row) ==
  [name |-> Or(Or(Or(Get(row, "Nom"), Get(row, "Bénéficiaire")), Get(row, "Name")), Str(<<>>)),
   phone |-> Or(Or(Or(Get(row, "Téléphone"), Get(row, "Phone")), Get(row, "Numéro")), Str(<<>>)),
   reference |-> Or(Or(Or(Get(row, "Référence"), Get(row, "Bulletin")), Get(row, "Reference")), Str(<<>>)),
   paymentMethod |-> IF ModeValue(row).val = LitVirement THEN "transfer" ELSE "cash",
   accountNumber |-> Or(Or(Get(row, "Compte"), Get(row, "IBAN")), Undefined)]

MapRow(row) ==
  [name |-> Or(Or(Or(Get(row, "Nom"), Get(row, "Bénéficiaire")), Get(row, "Name")), Str(<<>>)),
   phone |-> Or(Or(Or(Get(row, "Téléphone"), Get(row, "Phone")), Get(row, "Numéro")), Str(<<>>)),
   reference |-> Or(Or(Or(Get(row, "Référence"), Get(row, "Bulletin")), Get(row, "Reference")), Str(<<>>)),
   paymentMethod |-> IF toLowerCase(ModeValue(row).val) = LitVirement THEN "transfer" ELSE "cash",
   accountNumber |-> Or(Or(Get(row, "Compte"), Get(row, "IBAN")), Undefined)]

\* jsonData.map(row => ...)
NewBeneficiaries(jsonData) == [i \in 1..Len(jsonData) |-> MapRow(jsonData[i])]

\* Whether the try block of reader.onload throws: in XLSX.read, or in the
\* mapping of some row.
OnloadThrows(outcome) ==
  \/ ~outcome.ok
  \/ \E i \in 1..Len(outcome.jsonData) : RowThrows(outcome.jsonData[i])

\* The rows mapped before the first one that throws.
MappedBeforeThrow(jsonData) ==
  LET bad == {i \in 1..Len(jsonData) : RowThrows(jsonData[i])}
      n == IF bad = {} THEN Len(jsonData)
           ELSE (CHOOSE i \in bad : \A j \in bad : i <= j) - 1
  IN [i \in 1..n |-> MapRow(jsonData[i])]

\* The beneficiaries after reader.onload: setBeneficiaries is reached only
\* when nothing before it threw (lines 31-49).
ImportedList_Partial(prev, outcome) ==
  IF ~outcome.ok THEN prev ELSE prev \o MappedBeforeThrow(outcome.jsonData)

ImportedList(prev, outcome) ==
  IF OnloadThrows(outcome) THEN prev
  ELSE prev \o NewBeneficiaries(outcome.jsonData)

\* The text reader.onload passes to alert(), Null when it raises none
\* (lines 47-49).
ImportAlert(outcome) ==
  IF OnloadThrows(outcome) THEN Str(LitImportError) ELSE Null

\* The banner after reader.onload: setSuccessMessage is reached only when
\* nothing before it threw (line 46).
ImportBanner(prev, outcome) ==
  IF OnloadThrows(outcome) THEN prev
  ELSE Str(NumberToString(Len(NewBeneficiaries(outcome.jsonData))) \o LitImported)

\* The required attributes of the manual entry form (lines 335-406): the
\* browser submits only when every rendered required input is filled.
FormValid_NoRequired(form) == TRUE

FormValid(form) ==
  /\ form.name # <<>>
  /\ form.phone # <<>>
  /\ form.reference # <<>>
  /\ (form.paymentMethod = "transfer" => form.accountNumber # <<>>)

\* The record handleSubmit passes to onSubmit (lines 321-327).
SubmitData(form) ==
  [name |-> Str(form.name),
   phone |-> Str(form.phone),
   reference |-> Str(form.reference),
   paymentMethod |-> form.paymentMethod,
   accountNumber |-> IF form.paymentMethod = "transfer"
                     THEN Str(form.accountNumber) ELSE Undefined]

\* prev.filter((_, i) => i !== index), index counted from 0 (line 61).
RemoveAt_DropsRest(prev, index) ==
  SubSeq(prev, 1, IF index < Len(prev) THEN index ELSE Len(prev))

RemoveAt(prev, index) ==
  LET keep == {j \in 1..Len(prev) : j - 1 # index}
      nth(k) == CHOOSE j \in keep : Cardinality({h \in keep : h < j}) = k - 1
  IN [k \in 1..Cardinality(keep) |-> prev[nth(k)]]

\* The value passed to setBeneficiaries by "Tout effacer" (lines 191, 272).
Cleared_KeepsFirst(prev) == SubSeq(prev, 1, 1)

Cleared(prev) == <<>>

\* generateSMSMessage, with the notificationDate of its closure (lines 65-71).
GenerateSMSMessage_Swapped(beneficiary, date) ==
  LET baseMessage ==
        LitBonjour \o ToString(beneficiary.name) \o LitVotreBon
          \o ToString(beneficiary.reference) \o LitSeraPaye \o date \o LitDot
  IN IF beneficiary.paymentMethod = "cash"
     THEN baseMessage \o LitVirementEffectue
     ELSE baseMessage \o LitTresorerie

GenerateSMSMessage(beneficiary, date) ==
  LET baseMessage ==
        LitBonjour \o ToString(beneficiary.name) \o LitVotreBon
          \o ToString(beneficiary.reference) \o LitSeraPaye \o date \o LitDot
  IN IF beneficiary.paymentMethod = "cash"
     THEN baseMessage \o LitTresorerie
     ELSE baseMessage \o LitVirementEffectue

\* The lines the forEach of sendNotifications logs, one per beneficiary of
\* the closure, in array order (lines 83-87).
SmsLines_Reversed(list, date) ==
  [i \in 1..Len(list) |->
     LitSendingSmsTo \o ToString(list[Len(list) + 1 - i].phone) \o LitColon
       \o GenerateSMSMessage(list[Len(list) + 1 - i], date)]

SmsLines(list, date) ==
  [i \in 1..Len(list) |->
     LitSendingSmsTo \o ToString(list[i].phone) \o LitColon
       \o GenerateSMSMessage(list[i], date)]

\* disabled={beneficiaries.length === 0 || isSending}            (line 283)
SendDisabled_IgnoresSending == IsEmpty(beneficiaries)

SendDisabled == IsEmpty(beneficiaries) \/ isSending
(***************************************************************************)
(* Initial state: the component as first rendered.                          *)
(***************************************************************************)
Init ==
  /\ beneficiaries = <<>>
  /\ notificationDate = TxtDate1
  /\ isSending = FALSE
  /\ successMessage = Null
  /\ pendingReads = 0
  /\ timers = <<>>
  /\ alertShown = Null
  /\ consoleOut = <<>>

(***************************************************************************)
(* Event handlers.  alertShown and consoleOut hold what the latest step     *)
(* emitted, so every handler sets them.                                     *)
(***************************************************************************)

\* handleFileUpload with a file chosen: clears the banner and starts a
\* FileReader (lines 24-29, 51).
HandleFileUpload ==
  /\ pendingReads < MaxPendingReads
  /\ successMessage' = Null
  /\ pendingReads' = pendingReads + 1
  /\ alertShown' = Null
  /\ consoleOut' = <<>>
  /\ UNCHANGED <<beneficiaries, notificationDate, isSending, timers>>

\* reader.onload for a read that ends with the given parse outcome
\* (lines 30-50).
ReaderOnload(outcome) ==
  /\ pendingReads > 0
  /\ LET imported == ImportedList(beneficiaries, outcome)
     IN /\ Len(imported) <= MaxLen
        /\ beneficiaries' = imported
  /\ pendingReads' = pendingReads - 1
  /\ successMessage' = ImportBanner(successMessage, outcome)
  /\ alertShown' = ImportAlert(outcome)
  /\ consoleOut' = <<>>
  /\ UNCHANGED <<notificationDate, isSending, timers>>

\* The manual entry form is submitted: handleSubmit, then addManualEntry
\* (lines 318-329, 54-58).
AddManualEntry(form) ==
  /\ FormValid(form)
  /\ Len(beneficiaries) < MaxLen
  /\ beneficiaries' = beneficiaries \o <<SubmitData(form)>>
  /\ successMessage' = Str(LitAdded)
  /\ alertShown' = Null
  /\ consoleOut' = <<>>
  /\ UNCHANGED <<notificationDate, isSending, pendingReads, timers>>

\* The delete button of the row rendered at the given index (lines 60-63,
\* 253-254).
RemoveBeneficiary(index) ==
  /\ index \in 0..(Len(beneficiaries) - 1)
  /\ beneficiaries' = RemoveAt(beneficiaries, index)
  /\ successMessage' = Str(LitRemoved)
  /\ alertShown' = Null
  /\ consoleOut' = <<>>
  /\ UNCHANGED <<notificationDate, isSending, pendingReads, timers>>

\* Either "Tout effacer" button; both are available only on a non-empty
\* list (lines 189-196, 271-280).
ClearAll ==
  /\ ~IsEmpty(beneficiaries)
  /\ beneficiaries' = Cleared(beneficiaries)
  /\ alertShown' = Null
  /\ consoleOut' = <<>>
  /\ UNCHANGED <<notificationDate, isSending, successMessage, pendingReads, timers>>

\* The close button of the banner, rendered only while there is a message
\* (lines 105-111).
DismissMessage ==
  /\ Truthy(successMessage)
  /\ successMessage' = Null
  /\ alertShown' = Null
  /\ consoleOut' = <<>>
  /\ UNCHANGED <<beneficiaries, notificationDate, isSending, pendingReads, timers>>

\* The date input changes (line 170).
SetNotificationDate(date) ==
  /\ date # notificationDate
  /\ notificationDate' = date
  /\ alertShown' = Null
  /\ consoleOut' = <<>>
  /\ UNCHANGED <<beneficiaries, isSending, successMessage, pendingReads, timers>>

\* sendNotifications up to its await, called from the send button
\* (lines 73-81, 281-283).  The suspended call keeps the beneficiaries and
\* notificationDate of the render it was created in.
SendNotifications ==
  /\ ~SendDisabled
  /\ IF IsEmpty(beneficiaries)
     THEN UNCHANGED vars
     ELSE /\ isSending' = TRUE
          /\ successMessage' = Null
          /\ timers' = Append(timers, [beneficiaries |-> beneficiaries,
                                       notificationDate |-> notificationDate])
          /\ alertShown' = Null
          /\ consoleOut' = <<>>
          /\ UNCHANGED <<beneficiaries, notificationDate, pendingReads>>

\* sendNotifications after the delay (lines 83-94).  sent is the number of
\* beneficiaries handed to the channel before it throws; all of them when it
\* does not throw.
SendNotificationsResume(sent) ==
  /\ timers # <<>>
  /\ LET closure == Head(timers)
         lines == SmsLines(closure.beneficiaries, closure.notificationDate)
     IN /\ sent \in 0..Len(lines)
        /\ consoleOut' = SubSeq(lines, 1, sent)
        /\ IF sent = Len(lines)
           THEN /\ successMessage' =
                     Str(LitSentPrefix
                           \o NumberToString(Len(closure.beneficiaries))
                           \o LitSentSuffix)
                /\ alertShown' = Null
           ELSE /\ alertShown' = Str(LitSendError)
                /\ UNCHANGED successMessage
  /\ isSending' = FALSE
  /\ timers' = Tail(timers)
  /\ UNCHANGED <<beneficiaries, notificationDate, pendingReads>>

Next ==
  \/ HandleFileUpload
  \/ \E outcome \in ParseOutcomes : ReaderOnload(outcome)
  \/ \E form \in FormInputs : AddManualEntry(form)
  \/ \E index \in 0..(MaxLen - 1) : RemoveBeneficiary(index)
  \/ ClearAll
  \/ DismissMessage
  \/ \E date \in DateInputs : SetNotificationDate(date)
  \/ SendNotifications
  \/ \E sent \in 0..MaxLen : SendNotificationsResume(sent)

Spec == Init /\ [][Next]_vars

\* The timer of a suspended send always fires.
FairSpec == Spec /\ WF_vars(\E sent \in 0..MaxLen : SendNotificationsResume(sent))

TypeOK ==
  /\ Len(beneficiaries) <= MaxLen
  /\ isSending \in BOOLEAN
  /\ pendingReads \in 0..MaxPendingReads

(***************************************************************************)
(* Vocabulary of the properties.                                            *)
(***************************************************************************)
\* s.includes(sub)
Contains(s, sub) ==
  \/ sub = <<>>
  \/ \E k \in 0..(Len(s) - Len(sub)) :
       s[k + 1] = sub[1] /\ SubSeq(s, k + 1, k + Len(sub)) = sub

\* s.endsWith(sub)
EndsWith(s, sub) ==
  /\ Len(sub) <= Len(s)
  /\ SubSeq(s, Len(s) - Len(sub) + 1, Len(s)) = sub

IsPrefix(s, t) == Len(s) <= Len(t) /\ SubSeq(t, 1, Len(s)) = s

\* Equality of two texts up to the case of their letters.
EqualsIgnoringCase(s, t) ==
  /\ Len(s) = Len(t)
  /\ \A k \in 1..Len(s) : LowerChar(s[k]) = LowerChar(t[k])

\* The first of the given columns of a row that holds a non-empty value,
\* else the default.
FirstFound(row, keys, default) ==
  LET found == {k \in 1..Len(keys) : Truthy(Get(row, keys[k]))}
  IN IF found = {} THEN default
     ELSE row[keys[CHOOSE k \in found : \A h \in found : k <= h]]

TreasuryInstruction ==
  <<"V", "o", "u", "s", " ", "p", "o", "u", "v", "e", "z", " ", "p", "a", "s", "s", "e", "r", " ", "à", " ", "l", "a", " ", "t", "r", "é", "s", "o", "r", "e", "r", "i", "e", ".">>

TransferInstruction ==
  <<"L", "e", " ", "v", "i", "r", "e", "m", "e", "n", "t", " ", "a", " ", "é", "t", "é", " ", "e", "f", "f", "e", "c", "t", "u", "é", " ", "s", "u", "r", " ", "v", "o", "t", "r", "e", " ", "c", "o", "m", "p", "t", "e", ".">>

\* The text before the closing line of a message.
MessageHead(message, closing) == SubSeq(message, 1, Len(message) - Len(closing))

NonEmptyFields(record) ==
  /\ ToString(record.name) # <<>>
  /\ ToString(record.phone) # <<>>
  /\ ToString(record.reference) # <<>>

SentBanner(count) == Str(LitSentPrefix \o NumberToString(count) \o LitSentSuffix)

\* The lines a send of the given list with the given date hands over.
ExpectedLines(list, date) ==
  [k \in 1..Len(list) |->
     LitSendingSmsTo \o ToString(list[k].phone) \o LitColon
       \o GenerateSMSMessage(list[k], date)]

(***************************************************************************)
(* C1.  Whatever rows a pending read delivers and whatever the list holds, *)
(* a successful import appends exactly one record per input row to the end *)
(* of the list, in input order, leaving the existing records in place;     *)
(* each appended record carries the fields resolved from its row and has   *)
(* paymentMethod "transfer" exactly when the resolved mode (first of       *)
(* Méthode, Mode, else "cash") equals "virement" up to case, otherwise     *)
(* "cash"; the banner reports the number of rows.                          *)
(***************************************************************************)
C1_ImportAppendsRowsInOrder ==
  \A outcome \in ParseOutcomes :
    (pendingReads > 0 /\ ~OnloadThrows(outcome)) =>
      LET rows == outcome.jsonData
          old == Len(beneficiaries)
          imported == ImportedList(beneficiaries, outcome)
      IN /\ Len(imported) = old + Len(rows)
         /\ SubSeq(imported, 1, old) = beneficiaries
         /\ \A k \in 1..Len(rows) :
              LET record == imported[old + k]
                  mode == FirstFound(rows[k], <<"Méthode", "Mode">>, Str(LitCash))
              IN /\ record.name =
                      FirstFound(rows[k], <<"Nom", "Bénéficiaire", "Name">>, Str(<<>>))
                 /\ record.phone =
                      FirstFound(rows[k], <<"Téléphone", "Phone", "Numéro">>, Str(<<>>))
                 /\ record.reference =
                      FirstFound(rows[k], <<"Référence", "Bulletin", "Reference">>, Str(<<>>))
                 /\ record.paymentMethod \in {"cash", "transfer"}
                 /\ (record.paymentMethod = "transfer"
                       <=> EqualsIgnoringCase(mode.val, LitVirement))
         /\ ImportBanner(successMessage, outcome)
              = Str(NumberToString(Len(rows)) \o LitImported)
         /\ ImportAlert(outcome) = Null

\* A two-row import landed behind an existing record: a capitalised
\* "Virement" row became a transfer, a row without phone became cash.
C1_Witness ==
  /\ successMessage = Str(NumberToString(2) \o LitImported)
  /\ Len(beneficiaries) = 3
  /\ beneficiaries[2].paymentMethod = "transfer"
  /\ beneficiaries[3].paymentMethod = "cash"
  /\ ToString(beneficiaries[3].phone) = <<>>

(***************************************************************************)
(* C2.  Removing the row at index i (0 <= i < N) of a list of length N     *)
(* yields length N-1: the records before i stay, the records after i move  *)
(* up by one, and the record that was at i is the one that is gone.        *)
(***************************************************************************)
C2_RemoveAtRemovesExactlyOne ==
  [][\A index \in 0..(Len(beneficiaries) - 1) :
       RemoveBeneficiary(index) =>
         /\ Len(beneficiaries') = Len(beneficiaries) - 1
         /\ \A k \in 1..Len(beneficiaries') :
              beneficiaries'[k] =
                IF k <= index THEN beneficiaries[k] ELSE beneficiaries[k + 1]]_vars

\* A removal left two different records behind.
C2_Witness ==
  /\ successMessage = Str(LitRemoved)
  /\ Len(beneficiaries) = 2
  /\ beneficiaries[1] # beneficiaries[2]

(***************************************************************************)
(* C3 (as stated).  The message of a cash beneficiary contains the         *)
(* treasury instruction and never the transfer-completed instruction, and  *)
(* the other way round for a transfer beneficiary, whatever the name,      *)
(* reference and date.                                                     *)
(***************************************************************************)
C3_Original ==
  \A k \in 1..Len(beneficiaries) :
    LET message == GenerateSMSMessage(beneficiaries[k], notificationDate)
    IN IF beneficiaries[k].paymentMethod = "cash"
       THEN Contains(message, TreasuryInstruction)
              /\ ~Contains(message, TransferInstruction)
       ELSE Contains(message, TransferInstruction)
              /\ ~Contains(message, TreasuryInstruction)

(***************************************************************************)
(* C3 (amended).  The message of a cash beneficiary ends with the treasury *)
(* instruction as its closing line, and the transfer-completed instruction *)
(* occurs in it only if it occurs in the lines before the closing line,    *)
(* which are built from name, reference and date; the other way round for  *)
(* a transfer beneficiary.                                                 *)
(***************************************************************************)
C3_ClosingLineFollowsPaymentMethod ==
  \A k \in 1..Len(beneficiaries) :
    LET message == GenerateSMSMessage(beneficiaries[k], notificationDate)
        own == IF beneficiaries[k].paymentMethod = "cash"
               THEN TreasuryInstruction ELSE TransferInstruction
        other == IF beneficiaries[k].paymentMethod = "cash"
                 THEN TransferInstruction ELSE TreasuryInstruction
    IN /\ EndsWith(message, <<"\n">> \o own)
       /\ Contains(message, own)
       /\ Contains(message, other)
            => Contains(MessageHead(message, <<"\n">> \o own), other)

\* The list holds a transfer beneficiary and a cash beneficiary whose name
\* contains the transfer-completed instruction.
C3_Witness ==
  \E k, h \in 1..Len(beneficiaries) :
    /\ beneficiaries[k].paymentMethod = "transfer"
    /\ beneficiaries[h].paymentMethod = "cash"
    /\ Contains(ToString(beneficiaries[h].name), TransferInstruction)

(***************************************************************************)
(* C4.  While a batch send is pending (isSending is true) no step changes  *)
(* the beneficiary list.                                                   *)
(***************************************************************************)
C4_StoreUnchangedWhileSending ==
  [][isSending => beneficiaries' = beneficiaries]_vars

(***************************************************************************)
(* C5 (as stated).  In every reachable state every record of the list has  *)
(* a non-empty name, a non-empty phone and a non-empty reference.          *)
(***************************************************************************)
C5_Original ==
  \A k \in 1..Len(beneficiaries) : NonEmptyFields(beneficiaries[k])

(***************************************************************************)
(* C5 (amended).  Every record appended by a manual add has a non-empty    *)
(* name, a non-empty phone and a non-empty reference; records appended by  *)
(* an import may have empty ones.                                          *)
(***************************************************************************)
C5_ManualRecordsAreComplete ==
  [][\A form \in FormInputs :
       AddManualEntry(form) =>
         /\ Len(beneficiaries') = Len(beneficiaries) + 1
         /\ NonEmptyFields(beneficiaries'[Len(beneficiaries')])]_vars

\* A manual add has just appended a complete record behind an imported one
\* that has no phone.
C5_Witness ==
  /\ successMessage = Str(LitAdded)
  /\ Len(beneficiaries) >= 2
  /\ NonEmptyFields(beneficiaries[Len(beneficiaries)])
  /\ ~NonEmptyFields(beneficiaries[1])

(***************************************************************************)
(* C6.  The batch send goes idle -> sending -> {success, failed}:          *)
(* isSending becomes true only by a send triggered on a non-empty list;    *)
(* while sending no further send starts; isSending returns to false only   *)
(* by the completion of the pending send, which ends in exactly one of the *)
(* success banner and the failure alert; and every send that enters        *)
(* sending eventually leaves it.                                           *)
(***************************************************************************)
C6_SendStateMachine ==
  /\ [][/\ (~isSending /\ isSending') =>
             /\ Len(beneficiaries) > 0
             /\ timers = <<>>
             /\ Len(timers') = 1
        /\ isSending => Len(timers') <= Len(timers)
        /\ (isSending /\ ~isSending') =>
             /\ Len(timers) = 1
             /\ timers' = <<>>
             /\ (successMessage' = SentBanner(Len(timers[1].beneficiaries)))
                  # (alertShown' = Str(LitSendError))
        /\ (~isSending /\ ~isSending') =>
             /\ timers' = timers
             /\ alertShown' # Str(LitSendError)]_vars
  /\ [](isSending <=> timers # <<>>)
  /\ (isSending ~> ~isSending)

\* A send has completed on its success path.
C6_Witness ==
  /\ ~isSending
  /\ timers = <<>>
  /\ consoleOut # <<>>
  /\ alertShown = Null
  /\ successMessage = SentBanner(Len(consoleOut))

(***************************************************************************)
(* C7.  A send on an empty list is a no-op: triggered on an empty list it  *)
(* changes nothing, and from an idle state with an empty list no step      *)
(* enters sending or suspends a send, so nothing is dispatched for it.     *)
(***************************************************************************)
C7_EmptySendIsNoOp ==
  [][/\ (Len(beneficiaries) = 0 /\ SendNotifications) => UNCHANGED vars
     /\ (Len(beneficiaries) = 0 /\ ~isSending) =>
          /\ ~isSending'
          /\ timers' = timers
          /\ consoleOut' = <<>>]_vars

\* An idle state with an empty list and a banner on display, where a send
\* would have cleared the banner had it started.
C7_Witness ==
  /\ Len(beneficiaries) = 0
  /\ ~isSending
  /\ successMessage = Str(LitRemoved)

(***************************************************************************)
(* C8.  Whatever the list holds, when the import a pending read delivers   *)
(* fails (the parse throws, or the mapping of a row throws), the failure   *)
(* is reported by one alert and the list is left unchanged: no row of the  *)
(* failed import is appended, the existing records keep their values and   *)
(* order, and no import banner is shown.                                   *)
(***************************************************************************)
C8_FailedImportLeavesStore ==
  \A outcome \in ParseOutcomes :
    (pendingReads > 0 /\ OnloadThrows(outcome)) =>
      /\ ImportedList(beneficiaries, outcome) = beneficiaries
      /\ ImportAlert(outcome) = Str(LitImportError)
      /\ ImportBanner(successMessage, outcome) = successMessage

\* An import has just failed on a non-empty list.
C8_Witness ==
  /\ alertShown = Str(LitImportError)
  /\ Len(beneficiaries) >= 2

(***************************************************************************)
(* C9.  "Tout effacer" on a non-empty list yields a list of length 0.      *)
(***************************************************************************)
C9_ClearYieldsEmpty ==
  [][(Len(beneficiaries) > 0 /\ ClearAll) => Len(beneficiaries') = 0]_vars

\* The list is empty under the banner of a manual add: only a clear of a
\* non-empty list leads here.
C9_Witness ==
  /\ Len(beneficiaries) = 0
  /\ successMessage = Str(LitAdded)

(***************************************************************************)
(* C10.  A batch send works on the snapshot taken when it was triggered:   *)
(* the suspended send holds the list and the date of that moment, and on   *)
(* completion the lines handed over are those of that list, in order, each *)
(* composed with that date, and the success banner counts that list, even  *)
(* if the list or the date changed while the send was pending.             *)
(***************************************************************************)
C10_SendUsesTriggerSnapshot ==
  [][/\ Len(timers') > Len(timers) =>
          timers' = Append(timers, [beneficiaries |-> beneficiaries,
                                    notificationDate |-> notificationDate])
     /\ Len(timers') < Len(timers) =>
          LET expected == ExpectedLines(timers[1].beneficiaries,
                                        timers[1].notificationDate)
          IN /\ IsPrefix(consoleOut', expected)
             /\ alertShown' # Str(LitSendError) =>
                  /\ consoleOut' = expected
                  /\ successMessage' = SentBanner(Len(timers[1].beneficiaries))]_vars

\* A send of two records has completed after the list was emptied and the
\* date cleared while it was pending.
C10_Witness ==
  /\ ~isSending
  /\ alertShown = Null
  /\ Len(consoleOut) = 2
  /\ consoleOut[1] # consoleOut[2]
  /\ Contains(consoleOut[1], TxtDate1)
  /\ notificationDate = <<>>
  /\ Len(beneficiaries) = 0
====
